---- MODULE Spec2Model ----
(***************************************************************************)
(* Model of the Gabagool binary-arbitrage scanner (polymarket-arbitrage): *)
(* the scan-cycle controller (main.py), the balanced sizer (main.py), the *)
(* order gateway as the controller uses it (order_executor.py) and the    *)
(* SQLite position ledger (position_tracker.py).                          *)
(*                                                                         *)
(* Numbers.  The program computes with Python floats.  The model computes *)
(* with exact rationals <<n, d>> (d > 0, lowest terms), in the program's  *)
(* own units (dollars, shares, seconds).  The inputs enumerated below     *)
(* avoid the cases where float rounding decides a comparison (a balance   *)
(* ratio exactly equal to 1 - tolerance).  One product is computed as the *)
(* doubles compute it, because its rounding decides an int(): the         *)
(* max_spend * 100 of the sizer (WholeCents).                             *)
(***************************************************************************)
EXTENDS Integers, Sequences, FiniteSets, TLC

(***************************************************************************)
(* Exact rational arithmetic (stands for Python float arithmetic).        *)
(***************************************************************************)
RECURSIVE GCD(_, _)
GCD(a, b) == IF b = 0 THEN a ELSE GCD(b, a % b)

Abs(x) == IF x < 0 THEN -x ELSE x

\* n/d in lowest terms with a positive denominator
Rat(n, d) ==
    LET s == IF d < 0 THEN -1 ELSE 1
        g == GCD(Abs(n), Abs(d))
    IN  <<(s * n) \div g, (s * d) \div g>>

RInt(n) == <<n, 1>>
RZero == <<0, 1>>
ROne == <<1, 1>>
RAdd(x, y) == Rat(x[1] * y[2] + y[1] * x[2], x[2] * y[2])
RSub(x, y) == Rat(x[1] * y[2] - y[1] * x[2], x[2] * y[2])
RMul(x, y) == Rat(x[1] * y[1], x[2] * y[2])
\* defined for y # 0 only; callers test for the ZeroDivisionError case first
RDiv(x, y) == Rat(x[1] * y[2], x[2] * y[1])
RLt(x, y) == x[1] * y[2] < y[1] * x[2]
RLe(x, y) == x[1] * y[2] <= y[1] * x[2]
RMin(x, y) == IF RLe(x, y) THEN x ELSE y
RMax(x, y) == IF RLe(x, y) THEN y ELSE x
\* Python int() of a non-negative float: truncation
RTrunc(x) == x[1] \div x[2]

\* a price, amount or tolerance given in hundredths
Cents(c) == Rat(c, 100)

\* Python None, and a value that may be None: <<>> or <<v>>
None == <<>>
Some(v) == <<v>>
Val(o) == o[1]

VARIABLES
    \* ---- GabagoolScanner (main.py) ----
    pc,                     \* where the main loop is
    consecutive_errors,     \* self.consecutive_errors
    max_consecutive_errors, \* self.max_consecutive_errors
    dry_run,                \* config["dev"]["dry_run"]
    has_executor,           \* self.order_executor is not None
    cycle_count,            \* self.cycle_count
    opportunity_count,      \* self.opportunity_count
    trade_count,            \* self.trade_count
    last_market_discovery,  \* self.last_market_discovery (None or a time)
    now,                    \* the clock, in seconds
    queue,                  \* active markets of this cycle not yet analyzed
    cur,                    \* the execution in progress (None between executions)
    last_sleep,             \* argument of the latest asyncio.sleep (None before any)
    backoffs,               \* backoff sleeps taken since the last successful cycle
    cycle_result,           \* how the latest finished cycle ended: "ok" or "raised"
    \* ---- PolymarketFetcher (market_fetcher.py) ----
    cached_markets,         \* fetcher.cached_markets
    \* ---- OrderExecutor as called by the scanner ----
    orders,                 \* orders submitted to the gateway, in order
    \* ---- PositionTracker (position_tracker.py) ----
    positions,              \* table positions, row id = index
    trades,                 \* table trades
    dry_run_rows,           \* number of rows of dry_run_opportunities
    call,                   \* the latest direct ledger call and its outcome
    \* ---- _calculate_balanced_size ----
    size_args,              \* arguments of the latest sizer call (None before any)
    size_result,            \* what it returned
    \* ---- concurrent add_trade calls, one sqlite3 connection each ----
    writers,                \* per caller: where its add_trade is, and its transaction
    db_lock                 \* the caller holding SQLite's write lock (0: nobody)

ctl_vars == <<pc, consecutive_errors, max_consecutive_errors, dry_run, has_executor,
              cycle_count, opportunity_count, trade_count, last_market_discovery,
              now, queue, cur, last_sleep, backoffs, cycle_result>>
fetch_vars == <<cached_markets>>
gw_vars == <<orders>>
db_vars == <<positions, trades, dry_run_rows>>
size_vars == <<size_args, size_result>>
txn_vars == <<writers, db_lock>>
vars == <<ctl_vars, fetch_vars, gw_vars, db_vars, call, size_vars, txn_vars>>

(***************************************************************************)
(* Balanced sizer: GabagoolScanner._calculate_balanced_size.              *)
(***************************************************************************)
\* default of the parameter tolerance_pct, in hundredths
DefaultTolerancePct == 5

SizeTuple(yes_qty, no_qty, yes_spend, no_spend) ==
    [raised |-> FALSE, yes_qty |-> yes_qty, no_qty |-> no_qty,
     yes_spend |-> yes_spend, no_spend |-> no_spend]

\* spend / price raises ZeroDivisionError when a price is 0.0
SizeRaised == [raised |-> TRUE]

\* min(yes_qty, no_qty) / max(yes_qty, no_qty)
BalanceRatio(yes_qty, no_qty) == RDiv(RMin(yes_qty, no_qty), RMax(yes_qty, no_qty))

\* the test made on one spend level of the search (level k is k cents per leg)
LevelBalanced(k, yes_price, no_price, tolerance_pct) ==
    LET spend == Rat(k, 100)
        yes_qty == RDiv(spend, yes_price)
        no_qty == RDiv(spend, no_price)
    IN  /\ RLt(RZero, yes_qty)
        /\ RLt(RZero, no_qty)
        /\ RLe(RSub(ROne, tolerance_pct), BalanceRatio(yes_qty, no_qty))

\* for spend in range(int(max_spend * 100), 0, -1): the first level of lo..hi,
\* from the top, that passes the test; 0 when none does.  The loop's 10,000
\* iterations for $100 are walked in halves, upper half first, which visits the
\* levels in the loop's order without a recursion as deep as the loop is long.
RECURSIVE SearchLevel(_, _, _, _, _)
SearchLevel(lo, hi, yes_price, no_price, tolerance_pct) ==
    IF lo > hi THEN 0
    ELSE IF lo = hi
    THEN IF LevelBalanced(hi, yes_price, no_price, tolerance_pct) THEN hi ELSE 0
    ELSE LET mid == (lo + hi) \div 2
             upper == SearchLevel(mid + 1, hi, yes_price, no_price, tolerance_pct)
         IN  IF upper > 0 THEN upper
             ELSE SearchLevel(lo, mid, yes_price, no_price, tolerance_pct)

\* floor(log2(n / d)) for positive n and d
RECURSIVE BinaryExponent(_, _)
BinaryExponent(n, d) ==
    IF n >= 2 * d THEN BinaryExponent(n, 2 * d) + 1
    ELSE IF n < d THEN BinaryExponent(2 * n, d) - 1
    ELSE 0

\* 2^s mod q
RECURSIVE PowerOfTwoMod(_, _)
PowerOfTwoMod(s, q) == IF s = 0 THEN 1 % q ELSE (2 * PowerOfTwoMod(s - 1, q)) % q

RECURSIVE IsPowerOfTwo(_)
IsPowerOfTwo(n) == n = 1 \/ (n > 1 /\ n % 2 = 0 /\ IsPowerOfTwo(n \div 2))

\* int(max_spend * 100) in the doubles Python computes with, for a max_spend
\* of K whole cents.  The double nearest to K/100 is m / 2^s with
\* s = 52 - floor(log2(K/100)) and m = K * 2^s / 100 rounded to the nearest
\* integer; with r = (K * 2^s) mod 100 it lies r / (100 * 2^s) below K/100
\* when r < 50 and above it otherwise.  Its product with 100 is then
\* K - r / 2^s exactly, and rounds to the double below K, so that int() gives
\* K - 1, when r / 2^s exceeds half the distance from K to that double:
\* 2^(floor(log2 K) - 52), halved again when K is a power of two.
WholeCents(K) ==
    LET ex == BinaryExponent(K, 100)
        s == 52 - ex
        r == ((K % 100) * PowerOfTwoMod(s, 100)) % 100
        gap == 2 ^ (BinaryExponent(K, 1) - ex)
        half == IF IsPowerOfTwo(K) THEN gap \div 4 ELSE gap \div 2
    IN  IF r < 50 /\ r > half THEN K - 1 ELSE K

\* int(max_spend * 100).  A product that is not a whole number is at least a
\* tenth away from one for the amounts used here (thousandths of a dollar),
\* far more than a double's rounding error, so int() gives its integer part.
SpendCents(max_spend) ==
    LET product == RMul(max_spend, RInt(100))
    IN  IF product[2] = 1 /\ product[1] > 0 THEN WholeCents(product[1])
        ELSE RTrunc(product)

CalculateBalancedSize(yes_price, no_price, max_spend, tolerance_pct) ==
    IF yes_price = RZero \/ no_price = RZero THEN SizeRaised
    ELSE
        LET k == SearchLevel(1, SpendCents(max_spend),
                             yes_price, no_price, tolerance_pct)
            spend == Rat(k, 100)
        IN  IF k > 0
            THEN SizeTuple(RDiv(spend, yes_price), RDiv(spend, no_price), spend, spend)
            ELSE \* Fallback to equal spend if search fails
                 SizeTuple(RDiv(max_spend, yes_price), RDiv(max_spend, no_price),
                           max_spend, max_spend)


(***************************************************************************)
(* Position ledger: PositionTracker over its SQLite tables.  A row id is   *)
(* the row's index (INTEGER PRIMARY KEY AUTOINCREMENT, rows never deleted).*)
(***************************************************************************)
\* INSERT INTO positions (market_id, market_title, status): the other columns
\* take their DEFAULTs
NewPositionRow(market_id) ==
    [market_id |-> market_id, qty_yes |-> RZero, cost_yes |-> RZero,
     qty_no |-> RZero, cost_no |-> RZero, profit_locked |-> FALSE,
     status |-> "open"]

\* mutant: a market that has a row gets no second one
CreatePositionOncePerMarket(ps, market_id) ==
    IF \E i \in DOMAIN ps : ps[i].market_id = market_id THEN ps
    ELSE Append(ps, NewPositionRow(market_id))

\* create_position: the table after the INSERT; the id returned is its length
CreatePosition(ps, market_id) == Append(ps, NewPositionRow(market_id))

\* mutant: the fill reported by the gateway is ignored
ActualQtyIgnoresFill(qty, filled_qty) == qty

\* actual_qty = filled_qty if filled_qty is not None else qty
ActualQty(qty, filled_qty) == IF filled_qty # None THEN filled_qty ELSE qty

\* cost = actual_qty * price
TradeCost(actual_qty, price) == RMul(actual_qty, price)

\* "partial" if filled_qty and filled_qty < qty * 0.99 (None and 0.0 are falsy)
FillStatus(qty, filled_qty) ==
    IF /\ filled_qty # None
       /\ filled_qty # RZero
       /\ RLt(filled_qty, RMul(qty, Cents(99)))
    THEN "partial" ELSE "filled"

\* mutant: the column order_hash is not UNIQUE
HashNeverTaken(ts, order_hash) == FALSE

\* order_hash TEXT UNIQUE: the INSERT INTO trades fails on a hash already stored
HashTaken(ts, order_hash) == \E i \in DOMAIN ts : ts[i].order_hash = order_hash

\* mutant: the UPDATE stores the fill instead of adding it
UpdateTotalsOverwrite(ps, position_id, side, actual_qty, cost) ==
    IF position_id \notin DOMAIN ps THEN ps
    ELSE IF side = "YES"
    THEN [ps EXCEPT ![position_id].qty_yes = actual_qty,
                    ![position_id].cost_yes = cost]
    ELSE [ps EXCEPT ![position_id].qty_no = actual_qty,
                    ![position_id].cost_no = cost]

\* UPDATE positions SET qty_X = qty_X + ?, cost_X = cost_X + ? WHERE id = ?
\* (no row matches an unknown id; any side other than "YES" updates the NO columns)
UpdateTotals(ps, position_id, side, actual_qty, cost) ==
    IF position_id \notin DOMAIN ps THEN ps
    ELSE IF side = "YES"
    THEN [ps EXCEPT ![position_id].qty_yes = RAdd(@, actual_qty),
                    ![position_id].cost_yes = RAdd(@, cost)]
    ELSE [ps EXCEPT ![position_id].qty_no = RAdd(@, actual_qty),
                    ![position_id].cost_no = RAdd(@, cost)]

\* add_trade: one transaction.  raised: sqlite3.IntegrityError left the "with"
\* block, which rolled the transaction back
AddTrade(ps, ts, position_id, side, qty, price, order_hash, filled_qty) ==
    LET actual_qty == ActualQty(qty, filled_qty)
        cost == TradeCost(actual_qty, price)
        row == [position_id |-> position_id, side |-> side, qty |-> actual_qty,
                price |-> price, cost |-> cost, order_hash |-> order_hash,
                status |-> FillStatus(qty, filled_qty)]
    IN  IF HashTaken(ts, order_hash)
        THEN [raised |-> TRUE, positions |-> ps, trades |-> ts]
        ELSE [raised |-> FALSE,
              positions |-> UpdateTotals(ps, position_id, side, actual_qty, cost),
              trades |-> Append(ts, row)]

\* lock_profit: UPDATE positions SET profit_locked = 1 WHERE id = ?
LockProfit(ps, position_id) ==
    IF position_id \in DOMAIN ps
    THEN [ps EXCEPT ![position_id].profit_locked = TRUE] ELSE ps

\* close_position: UPDATE positions SET status = 'closed' WHERE id = ?
ClosePosition(ps, position_id) ==
    IF position_id \in DOMAIN ps
    THEN [ps EXCEPT ![position_id].status = "closed"] ELSE ps

\* get_all_open: SELECT id FROM positions WHERE status = 'open'
OpenIds(ps) == {i \in DOMAIN ps : ps[i].status = "open"}

\* get_position: None for an unknown id, else the Position built from the row
GetPosition(ps, position_id) ==
    IF position_id \notin DOMAIN ps THEN None
    ELSE LET row == ps[position_id]
         IN  Some([market_id |-> row.market_id, qty_yes |-> row.qty_yes,
                   cost_yes |-> row.cost_yes, qty_no |-> row.qty_no,
                   cost_no |-> row.cost_no, profit_locked |-> row.profit_locked])

\* mutant: the larger of the two quantities is paid out
GuaranteedProfitOfMax(p) ==
    IF RLe(p.qty_yes, RZero) \/ RLe(p.qty_no, RZero) THEN RZero
    ELSE RSub(RMax(p.qty_yes, p.qty_no), RAdd(p.cost_yes, p.cost_no))

\* Position.guaranteed_profit
GuaranteedProfit(p) ==
    IF RLe(p.qty_yes, RZero) \/ RLe(p.qty_no, RZero) THEN RZero
    ELSE RSub(RMin(p.qty_yes, p.qty_no), RAdd(p.cost_yes, p.cost_no))

(***************************************************************************)
(* Configuration read by the scanner (config.yaml is not part of the       *)
(* sources; the values are those of a typical deployment).                 *)
(***************************************************************************)
\* config["trading"]["poll_interval_sec"], seconds
PollIntervalSec == 10
\* self.market_discovery_interval, seconds
MarketDiscoveryInterval == 120
\* the value __init__ gives self.max_consecutive_errors
DefaultMaxConsecutiveErrors == 5
\* The loop reads the field self.max_consecutive_errors; besides the value
\* __init__ sets, the model runs it with the ceiling of the spec's backoff scenario.
MaxConsecutiveErrorsChoices == {3, DefaultMaxConsecutiveErrors}

\* config["trading"]["target_combined_cost"]
TargetCombinedCost == Cents(99)
\* config["trading"]["min_profit_margin"]
MinProfitMargin == Rat(25, 1000)
\* config["polymarket"]["market_filter"]["min_liquidity_usdc"]
MinLiquidity == RInt(1000)
\* config["trading"]["max_wallet_utilization"]
MaxWalletUtilization == Cents(75)
\* config["trading"]["qty_balance_tolerance"]
QtyBalanceTolerance == Cents(5)

(***************************************************************************)
(* Market data: PolymarketFetcher.                                         *)
(***************************************************************************)
\* An upstream answer: ok is FALSE for a request that failed (non-200 status,
\* timeout or exception); markets are the active markets parsed from it.
UpstreamFailed == [ok |-> FALSE, markets |-> <<>>]
UpstreamAnswer(markets) == [ok |-> TRUE, markets |-> markets]

\* mutant: a failure of the upstream leaves fetch_market_list as an exception
FetchMarketListRaising(cache, up) ==
    IF ~up.ok
    THEN [raised |-> TRUE, markets |-> <<>>, cache |-> cache]
    ELSE [raised |-> FALSE, markets |-> up.markets, cache |-> up.markets]

\* fetch_market_list: what it returns and the cache it leaves; a bad status,
\* a timeout and every exception end in "return []", so nothing is raised
FetchMarketList(cache, up) ==
    IF ~up.ok
    THEN [raised |-> FALSE, markets |-> <<>>, cache |-> cache]
    ELSE [raised |-> FALSE, markets |-> up.markets, cache |-> up.markets]

\* market_map[market_id]: the snapshot the answer holds for a market id, if
\* any (a later entry for the same id replaces an earlier one)
RECURSIVE Lookup(_, _)
Lookup(up, market_id) ==
    IF up = <<>> THEN None
    ELSE LET later == Lookup(Tail(up), market_id)
         IN  IF later # None THEN later
             ELSE IF Head(up).market_id = market_id THEN Some(Head(up))
             ELSE None

\* mutant: everything the upstream lists is returned
UpdatedMarketsAll(cache, up) == up

\* the loop of refresh_prices over the cached markets
RECURSIVE UpdatedMarkets(_, _)
UpdatedMarkets(cache, up) ==
    IF cache = <<>> THEN <<>>
    ELSE LET found == Lookup(up, Head(cache).market_id)
         IN  (IF found = None THEN <<>> ELSE <<Val(found)>>)
             \o UpdatedMarkets(Tail(cache), up)

\* mutant: a successful refresh stores what it returns
RefreshPricesStoresResult(cache, up) ==
    IF cache = <<>> THEN FetchMarketList(cache, up)
    ELSE IF ~up.ok THEN [raised |-> FALSE, markets |-> cache, cache |-> cache]
    ELSE [raised |-> FALSE, markets |-> UpdatedMarkets(cache, up.markets),
          cache |-> UpdatedMarkets(cache, up.markets)]

\* mutant: a failed refresh returns nothing
RefreshPricesNoFallback(cache, up) ==
    IF cache = <<>> THEN FetchMarketList(cache, up)
    ELSE IF ~up.ok THEN [raised |-> FALSE, markets |-> <<>>, cache |-> cache]
    ELSE [raised |-> FALSE, markets |-> UpdatedMarkets(cache, up.markets),
          cache |-> cache]

\* refresh_prices: a bad status and every exception end in
\* "return self.cached_markets"
RefreshPrices(cache, up) ==
    IF cache = <<>> THEN FetchMarketList(cache, up)
    ELSE IF ~up.ok THEN [raised |-> FALSE, markets |-> cache, cache |-> cache]
    ELSE [raised |-> FALSE, markets |-> UpdatedMarkets(cache, up.markets),
          cache |-> cache]

(***************************************************************************)
(* Scan cycle and analysis: GabagoolScanner.                               *)
(***************************************************************************)
\* timedelta(minutes=2), in seconds
ExpiryBufferSec == 120

\* mutant: the market list is discovered once and only refreshed afterwards
NeedsDiscoveryOnlyFirst(last, t) == last = None

\* needs_discovery of _scan_cycle
NeedsDiscovery(last, t) ==
    last = None \/ t - Val(last) >= MarketDiscoveryInterval

\* mutant: a market without an end time counts as expired
IsMarketExpiredUnknownEnd(m, t) ==
    m.end_time = None \/ Val(m.end_time) < t + ExpiryBufferSec

\* mutant: a market counts as expired once its end time has passed
IsMarketExpiredPastEnd(m, t) ==
    m.end_time # None /\ Val(m.end_time) < t

\* _is_market_expired
IsMarketExpired(m, t) ==
    m.end_time # None /\ Val(m.end_time) < t + ExpiryBufferSec

RECURSIVE ActiveMarkets(_, _)
ActiveMarkets(markets, t) ==
    IF markets = <<>> THEN <<>>
    ELSE (IF IsMarketExpired(Head(markets), t) THEN <<>> ELSE <<Head(markets)>>)
         \o ActiveMarkets(Tail(markets), t)

PairCost(m) == RAdd(m.yes_price, m.no_price)
\* mutant: the profit is measured against the target cost
ProfitPotentialOfTarget(m) == RSub(TargetCombinedCost, PairCost(m))
\* profit_potential = 1.0 - pair_cost
ProfitPotential(m) == RSub(ROne, PairCost(m))
\* mutant: the liquidity is not looked at
InsufficientLiquidityNever(m) == FALSE
\* _analyze_market: "Check liquidity first"
InsufficientLiquidity(m) == RLt(m.liquidity, MinLiquidity)
\* mutant: only what clears the margin counts as an opportunity
IsOpportunityAboveMargin(m) ==
    /\ ~InsufficientLiquidity(m)
    /\ RLt(PairCost(m), TargetCombinedCost)
    /\ RLt(MinProfitMargin, ProfitPotential(m))
\* pair_cost < target_cost
IsOpportunity(m) == ~InsufficientLiquidity(m) /\ RLt(PairCost(m), TargetCombinedCost)
\* profit_potential > min_margin
IsActionable(m) == IsOpportunity(m) /\ RLt(MinProfitMargin, ProfitPotential(m))

\* mutant: the loop over the active markets ends with the market analysed
RemainingMarketsDropped(markets) == <<>>

\* for market in active_markets: the markets still to analyse once
\* _analyze_market has returned for the first
RemainingMarkets(markets) == Tail(markets)

\* The call of _analyze_market just made: how it ended ("skipped", "observed",
\* "executed": _execute_arbitrage was awaited, "raised") and the
\* profit_potential it computed, if it got that far.
Analyzed(m, outcome) ==
    Some([op |-> "_analyze_market", market_id |-> m.market_id,
          outcome |-> outcome,
          profit_potential |->
              IF IsOpportunity(m) THEN Some(ProfitPotential(m)) ELSE None])

(***************************************************************************)
(* Main loop: error accounting and backoff.                                *)
(***************************************************************************)
RECURSIVE Pow2(_)
Pow2(n) == IF n = 0 THEN 1 ELSE 2 * Pow2(n - 1)

\* mutant: the backoff is computed from the count before the increment
BackoffTimeStale(errors) == PollIntervalSec * Pow2(errors - 1)

\* backoff_time = poll_interval_sec * (2 ** self.consecutive_errors)
BackoffTime(errors) == PollIntervalSec * Pow2(errors)

\* mutant: the loop has no ceiling
CeilingNeverReached(errors, ceiling) == FALSE

\* mutant: the ceiling test is > instead of >=
CeilingReachedStrict(errors, ceiling) == errors > ceiling

\* if self.consecutive_errors >= self.max_consecutive_errors: ... break
CeilingReached(errors, ceiling) == errors >= ceiling

\* mutant: a successful cycle leaves the error counter alone
ErrorsAfterSuccessKept(errors) == errors

\* "Reset error counter on successful cycle"
ErrorsAfterSuccess(errors) == IF errors > 0 THEN 0 ELSE errors

\* the except branch of _main_loop: _handle_cycle_error, then break or sleep
\* mutant: the failure is not counted
ErrorsAfterFailureStuck(errors) == errors

\* _handle_cycle_error: self.consecutive_errors += 1
ErrorsAfterFailure(errors) == errors + 1

OnCycleError ==
    LET errors == ErrorsAfterFailure(consecutive_errors)
    IN  /\ consecutive_errors' = errors
        /\ cycle_result' = "raised"
        /\ IF CeilingReached(errors, max_consecutive_errors)
           THEN /\ pc' = "stopped"
                /\ UNCHANGED <<last_sleep, backoffs>>
           ELSE /\ pc' = "sleeping"
                /\ last_sleep' = Some(BackoffTime(errors))
                /\ backoffs' = Append(backoffs, BackoffTime(errors))

(***************************************************************************)
(* Initial state: after GabagoolScanner.__init__ and start() have run.    *)
(***************************************************************************)
CtlInit ==
    /\ pc = "loop"
    /\ consecutive_errors = 0
    /\ max_consecutive_errors \in MaxConsecutiveErrorsChoices
    \* start(): live mode has an executor unless its construction failed, in
    \* which case dry_run is switched on; dry-run mode never builds one
    /\ dry_run \in BOOLEAN
    /\ has_executor = ~dry_run
    /\ cycle_count = 0
    /\ opportunity_count = 0
    /\ trade_count = 0
    /\ last_market_discovery = None
    /\ now = 0
    /\ queue = <<>>
    /\ cur = None
    /\ last_sleep = None
    /\ backoffs = <<>>
    /\ cycle_result = "none"

FetchInit == cached_markets = <<>>
GwInit == orders = <<>>
DbInit == positions = <<>> /\ trades = <<>> /\ dry_run_rows = 0
CallInit == call = None
SizeInit == size_args = None /\ size_result = None
TxnInit == writers = <<>> /\ db_lock = 0

Init == CtlInit /\ FetchInit /\ GwInit /\ DbInit /\ CallInit /\ SizeInit /\ TxnInit

(***************************************************************************)
(* The environment of the scanner: market data, wallet, gateway, clock.    *)
(***************************************************************************)
\* scan cycles the model follows
MaxCycles == 4
\* positions the wallet funds at most
MaxPositions == 2
\* positions a ledger client creates at most
MaxLedgerPositions == 1
MarketIds == {"m1", "m2"}
\* end times, in seconds: one that enters the expiry buffer after a few sleeps,
\* one far away
SoonEnd == 150
FarEnd == 100000

Snapshot(market_id, yes_cents, no_cents, liquidity, end_time) ==
    [market_id |-> market_id, yes_price |-> Cents(yes_cents),
     no_price |-> Cents(no_cents), liquidity |-> RInt(liquidity),
     end_time |-> end_time]

\* what the upstream may quote for each market
Catalogue ==
    { Snapshot("m1", 52, 45, 5000, None),           \* actionable, unbalanced prices
      Snapshot("m2", 50, 48, 5000, Some(FarEnd)),   \* below target, margin too small
      Snapshot("m2", 52, 45, 500, Some(SoonEnd)) }  \* no liquidity, expires soon

\* the answers: a failure, or up to one snapshot per market
UpstreamAnswers ==
    {UpstreamFailed, UpstreamAnswer(<<>>)}
    \cup {UpstreamAnswer(<<a>>) : a \in Catalogue}
    \cup {UpstreamAnswer(<<p[1], p[2]>>) :
            p \in {q \in Catalogue \X Catalogue :
                      q[1].market_id = "m1" /\ q[2].market_id = "m2"}}

\* OrderExecutor.get_balance("USDC"): the call raises or returns the balance;
\* the wallet is empty once MaxPositions positions have been opened
WalletReplies ==
    {[raised |-> TRUE, balance |-> RZero], [raised |-> FALSE, balance |-> RZero]}
    \cup (IF Len(positions) < MaxPositions
          THEN {[raised |-> FALSE, balance |-> Cents(8)]} ELSE {})

\* OrderExecutor.place_order: an order hash, None, or an exception
GatewayReplies == {"accepted", "rejected", "raised"}

\* the value place_order returns for the order stored at index i
OrderHash(reply, i) == IF reply = "accepted" THEN Some(i) ELSE None

\* mutant: an opportunity is logged but not counted
NextOpportunityCountKept(n) == n

\* self.opportunity_count += 1
NextOpportunityCount(n) == n + 1

\* mutant: a cycle is counted twice
NextCycleCountTwice(n) == n + 2

\* self.cycle_count += 1, the first statement of _scan_cycle
NextCycleCount(n) == n + 1

(***************************************************************************)
(* _scan_cycle                                                             *)
(***************************************************************************)
BeginCycle ==
    /\ pc = "loop"
    /\ cycle_count < MaxCycles
    /\ cycle_count' = NextCycleCount(cycle_count)
    /\ \E up \in UpstreamAnswers :
          LET discovery == NeedsDiscovery(last_market_discovery, now)
              r == IF discovery THEN FetchMarketList(cached_markets, up)
                   ELSE RefreshPrices(cached_markets, up)
          IN  /\ call' = Some([op |-> "_scan_cycle",
                               source |-> IF discovery THEN "fetch_market_list"
                                          ELSE "refresh_prices",
                               upstream_ok |-> up.ok,
                               returned |-> r.markets])
              /\ IF r.raised
                 THEN \* an exception of the fetcher would surface in _main_loop
                      /\ OnCycleError
                      /\ queue' = <<>>
                      /\ UNCHANGED <<cached_markets, last_market_discovery>>
                 ELSE /\ cached_markets' = r.cache
                      /\ last_market_discovery' =
                            IF discovery THEN Some(now) ELSE last_market_discovery
                      /\ queue' = ActiveMarkets(r.markets, now)
                      /\ pc' = "analyze"
                      /\ UNCHANGED <<consecutive_errors, last_sleep, backoffs,
                                     cycle_result>>
    /\ UNCHANGED <<max_consecutive_errors, dry_run, has_executor,
                   opportunity_count, trade_count, now, cur, gw_vars, db_vars,
                   size_vars>>
    /\ UNCHANGED txn_vars

(***************************************************************************)
(* _analyze_market                                                         *)
(***************************************************************************)
\* insufficient liquidity, or pair_cost >= target_cost
SkipMarket ==
    /\ pc = "analyze"
    /\ queue # <<>>
    /\ ~IsOpportunity(Head(queue))
    /\ queue' = RemainingMarkets(queue)
    /\ call' = Analyzed(Head(queue), "skipped")
    /\ UNCHANGED <<pc, consecutive_errors, max_consecutive_errors, dry_run,
                   has_executor, cycle_count, opportunity_count, trade_count,
                   last_market_discovery, now, cur, last_sleep, backoffs,
                   cycle_result, fetch_vars, gw_vars, db_vars, size_vars>>
    /\ UNCHANGED txn_vars

\* log_dry_run_opportunity raises (sqlite3 error): nothing catches it before
\* _main_loop, the cycle has failed
LogOpportunityRaises ==
    /\ pc = "analyze"
    /\ queue # <<>>
    /\ IsOpportunity(Head(queue))
    /\ OnCycleError
    /\ queue' = <<>>
    /\ call' = Analyzed(Head(queue), "raised")
    /\ UNCHANGED <<max_consecutive_errors, dry_run, has_executor, cycle_count,
                   opportunity_count, trade_count, last_market_discovery, now, cur,
                   fetch_vars, gw_vars, db_vars, size_vars>>
    /\ UNCHANGED txn_vars

\* an opportunity is logged and counted, its margin is too small to act on
ObserveOpportunity ==
    /\ pc = "analyze"
    /\ queue # <<>>
    /\ IsOpportunity(Head(queue))
    /\ ~IsActionable(Head(queue))
    /\ dry_run_rows' = dry_run_rows + 1
    /\ opportunity_count' = NextOpportunityCount(opportunity_count)
    /\ queue' = RemainingMarkets(queue)
    /\ call' = Analyzed(Head(queue), "observed")
    /\ UNCHANGED <<pc, consecutive_errors, max_consecutive_errors, dry_run,
                   has_executor, cycle_count, trade_count, last_market_discovery,
                   now, cur, last_sleep, backoffs, cycle_result, fetch_vars,
                   gw_vars, positions, trades, size_vars>>
    /\ UNCHANGED txn_vars

(***************************************************************************)
(* _execute_arbitrage                                                      *)
(***************************************************************************)
\* The synchronous head of _execute_arbitrage, up to the test of dry_run: how
\* it goes on for market m when get_balance answers w.
ExecutionPlan(m, w) ==
    IF ~has_executor THEN [kind |-> "no_executor", sized |-> None]
    ELSE IF w.raised THEN [kind |-> "raised", sized |-> None]
    ELSE LET max_trade_spend == RMul(w.balance, MaxWalletUtilization)
         IN  IF RLe(max_trade_spend, RZero)
             THEN [kind |-> "insufficient", sized |-> None]
             ELSE LET args == [yes_price |-> m.yes_price, no_price |-> m.no_price,
                               max_spend |-> max_trade_spend,
                               tolerance_pct |-> QtyBalanceTolerance]
                      r == CalculateBalancedSize(m.yes_price, m.no_price,
                                                 max_trade_spend, QtyBalanceTolerance)
                      sized == Some([args |-> args, result |-> r])
                  IN  IF r.raised THEN [kind |-> "raised", sized |-> sized]
                      ELSE IF dry_run THEN [kind |-> "dry_run", sized |-> sized]
                      ELSE [kind |-> "submit", sized |-> sized]

Order(position_id, m, side, qty, price) ==
    [position_id |-> position_id, market_id |-> m.market_id, side |-> side,
     qty |-> qty, price |-> price, result |-> "pending"]

\* An actionable opportunity: it is logged and counted, and _execute_arbitrage
\* runs up to its first await on the gateway (the YES order) or to its return.
ExecuteArbitrage ==
    /\ pc = "analyze"
    /\ queue # <<>>
    /\ IsActionable(Head(queue))
    /\ dry_run_rows' = dry_run_rows + 1
    /\ opportunity_count' = NextOpportunityCount(opportunity_count)
    /\ call' = Analyzed(Head(queue), "executed")
    /\ \E w \in WalletReplies : \E plan \in {ExecutionPlan(Head(queue), w)} :
          LET m == Head(queue)
              sized == Val(plan.sized)
          IN  /\ IF plan.sized = None
                 THEN UNCHANGED size_vars
                 ELSE /\ size_args' = Some(sized.args)
                      /\ size_result' = Some(sized.result)
              /\ trade_count' =
                    IF plan.kind = "dry_run" THEN trade_count + 1 ELSE trade_count
              /\ IF plan.kind = "submit"
                 THEN /\ positions' = CreatePosition(positions, m.market_id)
                      /\ orders' = Append(orders,
                            Order(Len(positions) + 1, m, "YES",
                                  sized.result.yes_qty, m.yes_price))
                      /\ cur' = Some([position_id |-> Len(positions) + 1,
                                      yes_qty |-> sized.result.yes_qty,
                                      no_qty |-> sized.result.no_qty,
                                      yes_hash |-> None])
                      /\ pc' = "yes_pending"
                      /\ UNCHANGED queue
                 ELSE /\ queue' = RemainingMarkets(queue)
                      /\ UNCHANGED <<positions, orders, cur, pc>>
    /\ UNCHANGED <<consecutive_errors, max_consecutive_errors, dry_run, has_executor,
                   cycle_count, last_market_discovery, now, last_sleep, backoffs,
                   cycle_result, fetch_vars, trades>>
    /\ UNCHANGED txn_vars

\* mutant: the submission is not awaited, the order stays in flight
AnsweredLate(os, i, reply) == os

\* await place_order(...) returns: the order stored at index i is answered
Answered(os, i, reply) == [os EXCEPT ![i].result = reply]

\* mutant: the test of yes_hash is missing
YesLegFailedIgnored(yes_hash) == FALSE

\* if not yes_hash: ... return
YesLegFailed(yes_hash) == yes_hash = None

\* if not no_hash: ... return
NoLegFailed(no_hash) == no_hash = None

\* the gateway answers the YES order; on a hash the NO order is submitted
YesReply ==
    /\ pc = "yes_pending"
    /\ \E reply \in GatewayReplies :
          LET i == Len(orders)
              m == Head(queue)
              c == Val(cur)
              yes_hash == OrderHash(reply, i)
              answered == Answered(orders, i, reply)
          IN  IF reply = "raised" \/ YesLegFailed(yes_hash)
              THEN /\ orders' = answered
                   /\ cur' = None
                   /\ queue' = RemainingMarkets(queue)
                   /\ pc' = "analyze"
              ELSE /\ orders' = Append(answered,
                            Order(c.position_id, m, "NO", c.no_qty, m.no_price))
                   /\ cur' = Some([c EXCEPT !.yes_hash = yes_hash])
                   /\ pc' = "no_pending"
                   /\ UNCHANGED queue
    /\ UNCHANGED <<consecutive_errors, max_consecutive_errors, dry_run, has_executor,
                   cycle_count, opportunity_count, trade_count,
                   last_market_discovery, now, last_sleep, backoffs, cycle_result,
                   fetch_vars, db_vars, call, size_vars>>
    /\ UNCHANGED txn_vars

\* mutant: only the fill of the YES order is recorded
RecordFillsYesOnly(ps, ts, position_id, m, yes_qty, no_qty, yes_hash, no_hash) ==
    LET r1 == AddTrade(ps, ts, position_id, "YES", yes_qty, m.yes_price,
                       yes_hash, None)
    IN  [positions |-> r1.positions, trades |-> r1.trades, traded |-> ~r1.raised]

\* The two add_trade calls that follow an accepted NO order; an exception of
\* the first skips the second.  traded: both went through.
RecordFills(ps, ts, position_id, m, yes_qty, no_qty, yes_hash, no_hash) ==
    LET r1 == AddTrade(ps, ts, position_id, "YES", yes_qty, m.yes_price,
                       yes_hash, None)
        r2 == AddTrade(r1.positions, r1.trades, position_id, "NO", no_qty,
                       m.no_price, no_hash, None)
    IN  IF r1.raised
        THEN [positions |-> r1.positions, trades |-> r1.trades, traded |-> FALSE]
        ELSE [positions |-> r2.positions, trades |-> r2.trades,
              traded |-> ~r2.raised]

\* the gateway answers the NO order; on a hash both fills are recorded
NoReply ==
    /\ pc = "no_pending"
    /\ \E reply \in GatewayReplies :
          LET i == Len(orders)
              m == Head(queue)
              c == Val(cur)
              no_hash == OrderHash(reply, i)
              r == RecordFills(positions, trades, c.position_id, m, c.yes_qty,
                               c.no_qty, Val(c.yes_hash), Val(no_hash))
          IN  /\ orders' = Answered(orders, i, reply)
              /\ IF reply = "raised" \/ NoLegFailed(no_hash)
                 THEN UNCHANGED <<positions, trades, trade_count>>
                 ELSE /\ positions' = r.positions
                      /\ trades' = r.trades
                      /\ trade_count' =
                            IF r.traded THEN trade_count + 1 ELSE trade_count
    /\ cur' = None
    /\ queue' = RemainingMarkets(queue)
    /\ pc' = "analyze"
    /\ UNCHANGED <<consecutive_errors, max_consecutive_errors, dry_run, has_executor,
                   cycle_count, opportunity_count, last_market_discovery, now,
                   last_sleep, backoffs, cycle_result, fetch_vars, dry_run_rows,
                   call, size_vars>>
    /\ UNCHANGED txn_vars

(***************************************************************************)
(* _main_loop                                                              *)
(***************************************************************************)
\* _scan_cycle returned: the counter is reset and the loop sleeps the poll interval
EndCycle ==
    /\ pc = "analyze"
    /\ queue = <<>>
    /\ consecutive_errors' = ErrorsAfterSuccess(consecutive_errors)
    /\ cycle_result' = "ok"
    /\ last_sleep' = Some(PollIntervalSec)
    /\ backoffs' = <<>>
    /\ pc' = "sleeping"
    /\ UNCHANGED <<max_consecutive_errors, dry_run, has_executor, cycle_count,
                   opportunity_count, trade_count, last_market_discovery, now,
                   queue, cur, fetch_vars, gw_vars, db_vars, call, size_vars>>
    /\ UNCHANGED txn_vars

\* asyncio.sleep returns
Wake ==
    /\ pc = "sleeping"
    /\ now' = now + Val(last_sleep)
    /\ pc' = "loop"
    /\ UNCHANGED <<consecutive_errors, max_consecutive_errors, dry_run, has_executor,
                   cycle_count, opportunity_count, trade_count,
                   last_market_discovery, queue, cur, last_sleep, backoffs,
                   cycle_result, fetch_vars, gw_vars, db_vars, call, size_vars>>
    /\ UNCHANGED txn_vars

Next ==
    \/ BeginCycle
    \/ SkipMarket
    \/ LogOpportunityRaises
    \/ ObserveOpportunity
    \/ ExecuteArbitrage
    \/ YesReply
    \/ NoReply
    \/ EndCycle
    \/ Wake

Spec == Init /\ [][Next]_vars

\* the scanner as constructed, for the runs that exercise one component alone
ApiInit == Init /\ ~dry_run /\ max_consecutive_errors = DefaultMaxConsecutiveErrors

(***************************************************************************)
(* The market data source alone: PolymarketFetcher driven by a client.     *)
(***************************************************************************)
\* what the upstream may quote: two quotes for m1 and m2, one for m3
FetcherCatalogue ==
    Catalogue \cup { Snapshot("m1", 49, 48, 5000, Some(FarEnd)),
                     Snapshot("m3", 55, 50, 5000, None) }

\* a failure, or up to two markets with different ids
FetcherAnswers ==
    {UpstreamFailed, UpstreamAnswer(<<>>)}
    \cup {UpstreamAnswer(<<a>>) : a \in FetcherCatalogue}
    \cup {UpstreamAnswer(<<p[1], p[2]>>) :
            p \in {q \in FetcherCatalogue \X FetcherCatalogue :
                      q[1].market_id # q[2].market_id}}

FFetchMarketList ==
    /\ \E up \in FetcherAnswers :
          LET r == FetchMarketList(cached_markets, up)
          IN  /\ cached_markets' = r.cache
              /\ call' = Some([op |-> "fetch_market_list", upstream |-> up,
                               returned |-> r.markets, raised |-> r.raised])
    /\ UNCHANGED <<ctl_vars, gw_vars, db_vars, size_vars>>
    /\ UNCHANGED txn_vars

FRefreshPrices ==
    /\ \E up \in FetcherAnswers :
          LET r == RefreshPrices(cached_markets, up)
          IN  /\ cached_markets' = r.cache
              /\ call' = Some([op |-> "refresh_prices", upstream |-> up,
                               returned |-> r.markets, raised |-> r.raised])
    /\ UNCHANGED <<ctl_vars, gw_vars, db_vars, size_vars>>
    /\ UNCHANGED txn_vars

FetcherNext == FFetchMarketList \/ FRefreshPrices
FetcherSpec == ApiInit /\ [][FetcherNext]_vars

(***************************************************************************)
(* One market under analysis: the scanner just after its first             *)
(* fetch_market_list returned a single market, then _analyze_market and    *)
(* what it awaits.                                                         *)
(***************************************************************************)
AnalyzeYesCents == {40, 45, 48, 49, 50, 52, 60}
AnalyzeNoCents == {40, 45, 48, 49, 50, 55}
\* liquidity in USDC, below and above min_liquidity_usdc
AnalyzeLiquidity == {500, 5000}

AnalyzeInit ==
    /\ pc = "analyze"
    /\ consecutive_errors = 0
    /\ max_consecutive_errors = DefaultMaxConsecutiveErrors
    /\ dry_run \in BOOLEAN
    /\ has_executor = ~dry_run
    /\ cycle_count = 1
    /\ opportunity_count = 0
    /\ trade_count = 0
    /\ last_market_discovery = Some(0)
    /\ now = 0
    /\ \E y \in AnalyzeYesCents, n \in AnalyzeNoCents, l \in AnalyzeLiquidity :
          /\ queue = <<Snapshot("m1", y, n, l, None)>>
          /\ cached_markets = queue
    /\ cur = None
    /\ last_sleep = None
    /\ backoffs = <<>>
    /\ cycle_result = "none"
    /\ GwInit /\ DbInit /\ CallInit /\ SizeInit /\ TxnInit

AnalyzeNext ==
    \/ SkipMarket
    \/ LogOpportunityRaises
    \/ ObserveOpportunity
    \/ ExecuteArbitrage
    \/ YesReply
    \/ NoReply

AnalyzeSpec == AnalyzeInit /\ [][AnalyzeNext]_vars

(***************************************************************************)
(* The sizer alone, on enumerated arguments.                               *)
(***************************************************************************)
\* prices in hundredths of a dollar; 0 is the price that makes the division raise
SizerPriceCents == {0, 45, 48, 50, 52, 90}
\* max_spend in thousandths of a dollar: below one cent, a few cents, 29 cents
\* (0.29 * 100 is 28.999999999999996 in doubles) and an amount that is not a
\* whole number of cents
SizerSpendMills == {5, 30, 290, 1999}
\* tolerance_pct in hundredths
SizerToleranceCents == {1, DefaultTolerancePct}

\* the spec's example budget, $100, in thousandths
ExampleSpendMills == 100 * 1000
\* The argument tuples <<yes, no, max_spend, tolerance>>.  A failed search
\* walks every cent of the budget, so the $100 budget is run with the spec's
\* example (0.52, 0.45), a second unbalanced pair and two balanced pairs only.
SizerArgs ==
    {a \in SizerPriceCents \X SizerPriceCents \X
           (SizerSpendMills \cup {ExampleSpendMills}) \X SizerToleranceCents :
        a[3] = ExampleSpendMills =>
            a[1] \in {48, 52} /\ a[2] \in {45, 50} /\ a[4] = DefaultTolerancePct}

\* a caller chooses the arguments
SizerPick ==
    /\ size_args = None
    /\ \E a \in SizerArgs :
          size_args' = Some([yes_price |-> Cents(a[1]), no_price |-> Cents(a[2]),
                             max_spend |-> Rat(a[3], 1000),
                             tolerance_pct |-> Cents(a[4])])
    /\ UNCHANGED <<ctl_vars, fetch_vars, gw_vars, db_vars, call, size_result>>
    /\ UNCHANGED txn_vars

\* the call returns (or raises)
SizerCall ==
    /\ size_args # None
    /\ size_result = None
    /\ size_result' = Some(CalculateBalancedSize(
                            Val(size_args).yes_price, Val(size_args).no_price,
                            Val(size_args).max_spend, Val(size_args).tolerance_pct))
    /\ UNCHANGED <<ctl_vars, fetch_vars, gw_vars, db_vars, call, size_args>>
    /\ UNCHANGED txn_vars

SizerNext == SizerPick \/ SizerCall
SizerSpec == ApiInit /\ [][SizerNext]_vars


(***************************************************************************)
(* The ledger alone: a client calls the PositionTracker methods with       *)
(* enumerated arguments, in any order.                                     *)
(***************************************************************************)
\* the client opens its positions on one market, so that every position after
\* the first is a repeated create_position for the same market
LedgerMarketIds == {"m1"}
Sides == {"YES", "NO"}
\* order hashes (execution references) the client passes
OrderHashes == {"h1", "h2"}
\* qty: the quantity ordered, in shares
LedgerQtys == {RInt(100)}
\* price per share: the spec's 0.5
LedgerPrices == {Cents(50)}
\* filled_qty: not given, nothing filled, the spec's 60 of 100
LedgerFilled == {None, RZero, RInt(60)}

LCreatePosition ==
    /\ Len(positions) < MaxLedgerPositions
    /\ \E m \in LedgerMarketIds :
          /\ positions' = CreatePosition(positions, m)
          /\ call' = Some([op |-> "create_position", market_id |-> m,
                           returned |-> Len(positions) + 1, raised |-> FALSE])
    /\ UNCHANGED <<ctl_vars, fetch_vars, gw_vars, trades, dry_run_rows, size_vars>>
    /\ UNCHANGED txn_vars

\* position ids passed: every existing one and one that names no row
LAddTrade ==
    /\ \E pid \in 1..(Len(positions) + 1), side \in Sides, qty \in LedgerQtys,
          price \in LedgerPrices, h \in OrderHashes, f \in LedgerFilled :
          LET r == AddTrade(positions, trades, pid, side, qty, price, h, f)
          IN  /\ positions' = r.positions
              /\ trades' = r.trades
              \* of a call that raised, only the hash it was refused for is kept
              /\ call' = IF r.raised
                         THEN Some([op |-> "add_trade", order_hash |-> h,
                                    raised |-> TRUE])
                         ELSE Some([op |-> "add_trade", position_id |-> pid,
                                    side |-> side, qty |-> qty, price |-> price,
                                    order_hash |-> h, filled_qty |-> f,
                                    raised |-> FALSE])
    /\ UNCHANGED <<ctl_vars, fetch_vars, gw_vars, dry_run_rows, size_vars>>
    /\ UNCHANGED txn_vars

LClosePosition ==
    /\ \E pid \in 1..(Len(positions) + 1) :
          /\ positions' = ClosePosition(positions, pid)
          /\ call' = Some([op |-> "close_position", position_id |-> pid,
                           raised |-> FALSE])
    /\ UNCHANGED <<ctl_vars, fetch_vars, gw_vars, trades, dry_run_rows, size_vars>>
    /\ UNCHANGED txn_vars

LLockProfit ==
    /\ \E pid \in 1..(Len(positions) + 1) :
          /\ positions' = LockProfit(positions, pid)
          /\ call' = Some([op |-> "lock_profit", position_id |-> pid,
                           raised |-> FALSE])
    /\ UNCHANGED <<ctl_vars, fetch_vars, gw_vars, trades, dry_run_rows, size_vars>>
    /\ UNCHANGED txn_vars

LedgerNext == LCreatePosition \/ LAddTrade \/ LLockProfit \/ LClosePosition
LedgerSpec == ApiInit /\ [][LedgerNext]_vars

(***************************************************************************)
(* Reading a position back: get_position and the properties of Position,   *)
(* over ledgers that hold one position with up to one fill per side.       *)
(***************************************************************************)
\* quantities filled per side, in shares (0: the side was not traded)
ReadQtys == {RZero, RInt(60), RInt(100), RInt(120)}
ReadPrices == {Cents(45), Cents(50), Cents(52)}

\* the ledger r after a fill of q shares at p on one side of position 1
WithFill(r, side, q, p, order_hash) ==
    IF q = RZero THEN r
    ELSE AddTrade(r.positions, r.trades, 1, side, q, p, order_hash, None)

\* create_position followed by the fills of the two sides
LedgerWithFills(yes_qty, yes_price, no_qty, no_price) ==
    LET r0 == [raised |-> FALSE, positions |-> CreatePosition(<<>>, "m1"),
               trades |-> <<>>]
    IN  WithFill(WithFill(r0, "YES", yes_qty, yes_price, "h1"),
                 "NO", no_qty, no_price, "h2")

ReadInit ==
    /\ CtlInit /\ ~dry_run /\ max_consecutive_errors = DefaultMaxConsecutiveErrors
    /\ FetchInit /\ GwInit /\ CallInit /\ SizeInit /\ TxnInit
    /\ dry_run_rows = 0
    /\ \E yes_qty \in ReadQtys, no_qty \in ReadQtys,
          yes_price \in ReadPrices, no_price \in ReadPrices :
          LET r == LedgerWithFills(yes_qty, yes_price, no_qty, no_price)
          IN  positions = r.positions /\ trades = r.trades

RGetPosition ==
    /\ \E pid \in 1..(Len(positions) + 1) :
          call' = Some([op |-> "get_position", position_id |-> pid,
                        returned |-> GetPosition(positions, pid)])
    /\ UNCHANGED <<ctl_vars, fetch_vars, gw_vars, db_vars, size_vars>>
    /\ UNCHANGED txn_vars

\* the property guaranteed_profit of the Position last returned
RGuaranteedProfit ==
    /\ call # None
    /\ Val(call).op = "get_position"
    /\ Val(call).returned # None
    /\ call' = Some([op |-> "guaranteed_profit",
                     position |-> Val(Val(call).returned),
                     returned |-> GuaranteedProfit(Val(Val(call).returned))])
    /\ UNCHANGED <<ctl_vars, fetch_vars, gw_vars, db_vars, size_vars>>
    /\ UNCHANGED txn_vars

\* the tolerances a caller may ask for; None: the plain attribute access
\* position.is_balanced
BalanceTolerances == {None, Cents(5), Cents(10)}

\* tolerance_pct: float = 0.05
BalanceDefaultTolerance == Cents(5)

\* the body of is_balanced
IsBalancedBody(p, tolerance_pct) ==
    IF ~RLt(RZero, p.qty_yes) \/ ~RLt(RZero, p.qty_no) THEN FALSE
    ELSE LET ratio == RDiv(RMin(p.qty_yes, p.qty_no), RMax(p.qty_yes, p.qty_no))
         IN  RLe(RSub(RInt(1), tolerance_pct), ratio)

\* is_balanced is declared @property: the attribute access runs the body with
\* the default tolerance and yields a bool; position.is_balanced(t) then calls
\* that bool and raises TypeError
IsBalanced(p, tolerance) ==
    IF tolerance = None
    THEN [raised |-> FALSE, returned |-> IsBalancedBody(p, BalanceDefaultTolerance)]
    ELSE [raised |-> TRUE, returned |-> FALSE]

\* the balance check of the Position last returned
RIsBalanced ==
    /\ call # None
    /\ Val(call).op = "get_position"
    /\ Val(call).returned # None
    /\ \E tolerance \in BalanceTolerances :
          LET r == IsBalanced(Val(Val(call).returned), tolerance)
          IN  call' = Some([op |-> "is_balanced",
                            position |-> Val(Val(call).returned),
                            tolerance |-> tolerance,
                            raised |-> r.raised, returned |-> r.returned])
    /\ UNCHANGED <<ctl_vars, fetch_vars, gw_vars, db_vars, size_vars>>
    /\ UNCHANGED txn_vars

ReadNext == RGetPosition \/ RGuaranteedProfit \/ RIsBalanced
ReadSpec == ReadInit /\ [][ReadNext]_vars


(***************************************************************************)
(* Properties of the sizer (checked under SizerSpec).                     *)
(***************************************************************************)
\* the latest sizer call returned a tuple for a positive budget
SizerReturned ==
    /\ size_result # None
    /\ ~Val(size_result).raised
    /\ RLt(RZero, Val(size_args).max_spend)

\* C8: for every sizer call with maxSpend > 0 the total spend returned,
\* spendA + spendB, is at most maxSpend.
C8_TotalSpendWithinMaxSpend ==
    SizerReturned =>
        RLe(RAdd(Val(size_result).yes_spend, Val(size_result).no_spend),
            Val(size_args).max_spend)

\* C9: the quantities returned are balanced within the tolerance:
\* min(qtyA, qtyB) / max(qtyA, qtyB) >= 1 - tolerance, for every input with
\* maxSpend > 0 (among them 0.52, 0.45, 100, 0.05).
C9_QuantitiesBalanced ==
    SizerReturned =>
        LET qa == Val(size_result).yes_qty
            qb == Val(size_result).no_qty
            lo == IF RLe(qa, qb) THEN qa ELSE qb
            hi == IF RLe(qa, qb) THEN qb ELSE qa
        IN  RLe(RMul(RSub(ROne, Val(size_args).tolerance_pct), hi), lo)

(***************************************************************************)
(* Properties of the ledger (checked under LedgerSpec).                   *)
(***************************************************************************)
\* some position holds a fill
SomeFillRecorded ==
    \E i \in DOMAIN positions :
        positions[i].qty_yes # RZero \/ positions[i].qty_no # RZero

\* C3: an add_trade whose order_hash is already recorded is rejected with an
\* error and leaves every position row and the trade rows as they were.
C3_DuplicateHashRejected ==
    [][(/\ call' # None
        /\ Val(call').op = "add_trade"
        /\ \E i \in DOMAIN trades : trades[i].order_hash = Val(call').order_hash)
       => (/\ Val(call').raised
           /\ positions' = positions
           /\ trades' = trades)]_vars

\* a duplicate was refused while a position held a fill
C3_Witness ==
    /\ call # None
    /\ Val(call).op = "add_trade"
    /\ Val(call).raised
    /\ \E i \in DOMAIN trades : trades[i].order_hash = Val(call).order_hash
    /\ SomeFillRecorded

\* C10: an add_trade that is accepted on side X of an existing position adds
\* actualQty to qty_X and actualQty * price to cost_X, where actualQty is
\* filled_qty when one is given and qty otherwise; 100 requested at 0.5 with 60
\* filled gives qty_yes = 60 and cost_yes = 30 on a fresh position.
C10_AddTradeAccumulates ==
    [][(/\ call' # None
        /\ Val(call').op = "add_trade"
        /\ ~Val(call').raised
        /\ Val(call').position_id \in DOMAIN positions)
       => LET c == Val(call')
              old == positions[c.position_id]
              new == positions'[c.position_id]
              actual == IF c.filled_qty = None THEN c.qty ELSE c.filled_qty
              amount == RMul(actual, c.price)
          IN  /\ c.side = "YES" =>
                    /\ new.qty_yes = RAdd(old.qty_yes, actual)
                    /\ new.cost_yes = RAdd(old.cost_yes, amount)
              /\ c.side = "NO" =>
                    /\ new.qty_no = RAdd(old.qty_no, actual)
                    /\ new.cost_no = RAdd(old.cost_no, amount)
              /\ (/\ c.side = "YES" /\ c.qty = <<100, 1>> /\ c.price = <<1, 2>>
                  /\ c.filled_qty = <<60, 1>>
                  /\ old.qty_yes = RZero /\ old.cost_yes = RZero)
                 => new.qty_yes = <<60, 1>> /\ new.cost_yes = <<30, 1>>]_vars

\* the spec's partial fill was recorded on a fresh position
C10_Witness ==
    /\ call # None
    /\ Val(call).op = "add_trade"
    /\ ~Val(call).raised
    /\ Val(call).side = "YES"
    /\ Val(call).filled_qty = <<60, 1>>
    /\ Val(call).position_id \in DOMAIN positions
    /\ positions[Val(call).position_id].qty_yes = <<60, 1>>
    /\ positions[Val(call).position_id].cost_yes = <<30, 1>>

(***************************************************************************)
(* The two legs of an execution                                            *)
(***************************************************************************)
OrderIds == 1..Len(orders)

YesOrders(result) ==
    {i \in OrderIds : orders[i].side = "YES" /\ orders[i].result = result}

NoOrders(result) ==
    {i \in OrderIds : orders[i].side = "NO" /\ orders[i].result = result}

NoOrderFor(position_id) ==
    \A i \in OrderIds :
        ~(orders[i].side = "NO" /\ orders[i].position_id = position_id)

\* C1: when place_order returns no order hash for the YES leg, no NO order is
\* ever submitted for that position.
C1_RejectedYesNeverFollowedByNo ==
    \A i \in YesOrders("rejected") : NoOrderFor(orders[i].position_id)

\* a YES leg was rejected and the cycle it belonged to has run to its end
C1_Witness ==
    /\ YesOrders("rejected") # {}
    /\ pc = "sleeping"

\* C2: when the YES leg is accepted and the NO leg is rejected, the position
\* created for the execution holds qty_yes > 0 and qty_no = 0.
C2_OneSidedPositionVisible ==
    \A i \in NoOrders("rejected") :
        LET p == positions[orders[i].position_id]
        IN  RLt(RZero, p.qty_yes) /\ p.qty_no = RZero

\* C14: no market has two open positions: the controller does not create a
\* position for a market that already has an open one.
C14_OneOpenPositionPerMarket ==
    \A i \in DOMAIN positions : \A j \in DOMAIN positions :
        (/\ i # j
         /\ positions[i].status = "open"
         /\ positions[j].status = "open")
        => positions[i].market_id # positions[j].market_id

(***************************************************************************)
(* Classification of a market (checked under AnalyzeSpec).                 *)
(***************************************************************************)
\* a step that calls _analyze_market on the market at the head of the queue
AnalyzeStep == pc = "analyze" /\ queue # <<>> /\ call' # call

\* the call returned (log_dry_run_opportunity did not raise)
AnalyzeReturns == AnalyzeStep /\ Val(call').outcome # "raised"

CombinedCostBelowTarget(m) ==
    RLt(RAdd(m.yes_price, m.no_price), TargetCombinedCost)

\* C15: a market whose liquidity is below min_liquidity is skipped whatever
\* its prices: nothing is recorded, opportunity_count keeps its value and no
\* execution starts.
C15_LowLiquiditySkipped ==
    [][(AnalyzeStep /\ RLt(Head(queue).liquidity, MinLiquidity))
       => /\ Val(call').outcome = "skipped"
          /\ dry_run_rows' = dry_run_rows
          /\ opportunity_count' = opportunity_count
          /\ trade_count' = trade_count
          /\ UNCHANGED <<orders, positions, trades, size_args, size_result>>
          /\ pc' = "analyze"
          /\ queue' = Tail(queue)]_vars

\* a market with too little liquidity, at prices that would be acted on, was skipped
C15_Witness ==
    /\ call # None
    /\ Val(call).op = "_analyze_market"
    /\ Val(call).outcome = "skipped"
    /\ cached_markets # <<>>
    /\ cached_markets[1].liquidity = <<500, 1>>
    /\ cached_markets[1].yes_price = <<13, 25>>
    /\ cached_markets[1].no_price = <<9, 20>>
    /\ queue = <<>>

\* C16: for prices with pA + pB below the target cost the profit potential is
\* 1 - (pA + pB), and execution is triggered exactly when it exceeds the
\* minimum margin.
C16_ActionableIffAboveMargin ==
    [][(/\ AnalyzeReturns
        /\ ~RLt(Head(queue).liquidity, MinLiquidity)
        /\ CombinedCostBelowTarget(Head(queue)))
       => LET m == Head(queue)
              profit == RSub(ROne, RAdd(m.yes_price, m.no_price))
          IN  /\ Val(call').profit_potential = Some(profit)
              /\ Val(call').outcome = "executed" <=> RLt(MinProfitMargin, profit)
              /\ Val(call').outcome \in {"executed", "observed"}]_vars

\* a pair at 0.52 and 0.45 (potential 0.03) went to execution
C16_Witness ==
    /\ call # None
    /\ Val(call).op = "_analyze_market"
    /\ Val(call).outcome = "executed"
    /\ Val(call).profit_potential = Some(<<3, 100>>)
    /\ cached_markets # <<>>
    /\ cached_markets[1].yes_price = <<13, 25>>
    /\ cached_markets[1].no_price = <<9, 20>>

\* C17: every market analysed with a combined cost below the target is
\* recorded as an observed opportunity, one row in dry_run_opportunities and
\* one more in opportunity_count, also when its profit potential does not
\* exceed the margin and it is not executed.
C17_BelowTargetRecorded ==
    [][(/\ AnalyzeReturns
        /\ ~RLt(Head(queue).liquidity, MinLiquidity)
        /\ CombinedCostBelowTarget(Head(queue)))
       => /\ dry_run_rows' = dry_run_rows + 1
          /\ opportunity_count' = opportunity_count + 1
          /\ ~RLt(MinProfitMargin, RSub(ROne, RAdd(Head(queue).yes_price,
                                                   Head(queue).no_price)))
                => /\ Val(call').outcome = "observed"
                   /\ UNCHANGED <<orders, positions, trade_count>>]_vars

\* a pair at 0.49 and 0.49 (potential 0.02) was recorded and not executed
C17_Witness ==
    /\ call # None
    /\ Val(call).op = "_analyze_market"
    /\ Val(call).outcome = "observed"
    /\ Val(call).profit_potential = Some(<<1, 50>>)
    /\ dry_run_rows = 1
    /\ opportunity_count = 1
    /\ orders = <<>>

\* C18: in dry-run mode no order is submitted and no position is created,
\* while every actionable opportunity is still counted, its balanced sizing is
\* still computed and the would-be trade is counted.
C18_DryRunSizesWithoutOrders ==
    /\ [](dry_run => (orders = <<>> /\ positions = <<>>))
    /\ [][(dry_run /\ AnalyzeStep /\ Val(call').outcome = "executed")
          => /\ opportunity_count' = opportunity_count + 1
             /\ size_result' # None
             /\ ~Val(size_result').raised
             /\ trade_count' = trade_count + 1]_vars

\* a step on which the execution for the market at the head of the queue ends
\* without a trade: _execute_arbitrage returned early or caught an exception,
\* or an order was rejected or its submission raised
ExecutionFails ==
    \/ /\ AnalyzeStep
       /\ Val(call').outcome = "executed"
       /\ pc' = "analyze"
       /\ trade_count' = trade_count
    \/ /\ pc \in {"yes_pending", "no_pending"}
       /\ orders'[Len(orders)].result \in {"rejected", "raised"}

\* C23: a failed execution for one market does not abort the cycle:
\* consecutive_errors keeps its value, no sleep or stop follows, and the
\* markets left in the batch stay due for analysis in the same cycle, which
\* returns only when none is left.
C23_ExecutionFailureIsolated ==
    [][ /\ ExecutionFails
            => /\ pc' = "analyze"
               /\ queue' = Tail(queue)
               /\ consecutive_errors' = consecutive_errors
               /\ UNCHANGED <<cycle_result, last_sleep, backoffs, cycle_count>>
        /\ (pc = "analyze" /\ pc' = "sleeping" /\ cycle_result' = "ok")
            => queue = <<>> ]_vars

\* in one cycle the order for m1 failed and m2 was analysed after it
C23_Witness ==
    /\ cycle_count = 1
    /\ consecutive_errors = 0
    /\ Len(orders) = 1
    /\ orders[1].market_id = "m1"
    /\ orders[1].result \in {"rejected", "raised"}
    /\ call # None
    /\ Val(call).market_id = "m2"
    /\ pc = "sleeping"
    /\ cycle_result = "ok"

\* the last thing the cycle under way did is a fetch that found the upstream
\* unavailable
UpstreamWasDown(c) ==
    c # None /\ Val(c).op = "_scan_cycle" /\ ~Val(c).upstream_ok

\* C24: an unavailable market-data source is not a cycle failure by itself:
\* the cycle goes on with what the fetcher returned, and when that is nothing
\* it returns normally; consecutive_errors does not grow and no backoff sleep
\* is taken.
C24_UpstreamDownIsNoCycleFailure ==
    [][ /\ (cycle_count' # cycle_count /\ UpstreamWasDown(call'))
            => /\ pc' = "analyze"
               /\ consecutive_errors' = consecutive_errors
               /\ UNCHANGED <<cycle_result, last_sleep, backoffs>>
        /\ (UpstreamWasDown(call) /\ call' = call /\ pc = "analyze")
            => /\ queue = <<>>
               /\ pc' = "sleeping"
               /\ cycle_result' = "ok"
               /\ consecutive_errors' = 0
               /\ last_sleep' = Some(PollIntervalSec) ]_vars

\* a discovery that failed was followed by the plain sleep
C24_Witness ==
    /\ UpstreamWasDown(call)
    /\ Val(call).source = "fetch_market_list"
    /\ pc = "sleeping"
    /\ cycle_result = "ok"
    /\ last_sleep = Some(PollIntervalSec)

InFlight == {i \in OrderIds : orders[i].result = "pending"}

\* C25: the two legs of an opportunity are submitted one after the other: a
\* NO order exists only once the submission of the YES order of its position
\* has completed, and two submissions are never in flight together.
C25_LegsSequential ==
    /\ Cardinality(InFlight) <= 1
    /\ \A i \in OrderIds :
          orders[i].side = "NO"
          => \E j \in 1..(i - 1) :
                /\ orders[j].side = "YES"
                /\ orders[j].position_id = orders[i].position_id
                /\ orders[j].result # "pending"

\* the NO order is in flight, the YES order of the position was accepted
C25_Witness ==
    /\ pc = "no_pending"
    /\ Len(orders) = 2
    /\ orders[1].side = "YES" /\ orders[1].result = "accepted"
    /\ orders[2].side = "NO" /\ orders[2].result = "pending"
    /\ orders[2].position_id = orders[1].position_id

(***************************************************************************)
(* Failures and successes of a cycle                                       *)
(***************************************************************************)
\* the step on which a cycle is abandoned by an exception
CycleFails ==
    /\ pc = "analyze"
    /\ queue # <<>>
    /\ pc' \in {"sleeping", "stopped"}

\* the step on which a cycle returns
CycleSucceeds ==
    /\ pc = "analyze"
    /\ queue = <<>>
    /\ pc' # pc

\* C4: a failed cycle that brings consecutive_errors to max_consecutive_errors
\* stops the loop for good: no sleep is taken for that failure, and from then
\* on no cycle starts.
C4_CeilingStopsPermanently ==
    [][ /\ (CycleFails /\ consecutive_errors + 1 >= max_consecutive_errors)
            => /\ pc' = "stopped"
               /\ last_sleep' = last_sleep
               /\ backoffs' = backoffs
               /\ now' = now
        /\ pc = "stopped"
            => /\ pc' = "stopped"
               /\ cycle_count' = cycle_count
               /\ now' = now ]_vars

\* the loop has stopped at the ceiling after an earlier successful cycle
C4_Witness ==
    /\ pc = "stopped"
    /\ consecutive_errors = max_consecutive_errors
    /\ cycle_count > max_consecutive_errors

\* C5 as stated: with a poll interval of 10 s and a ceiling of 3, the third
\* consecutive failure is followed by the third sleep (20, 40, 80 s), the stop
\* coming with the fourth failure only.
C5_ThreeSleepsBeforeStop ==
    (max_consecutive_errors = 3 /\ consecutive_errors = 3)
        => (backoffs = <<20, 40, 80>> /\ pc # "stopped")

\* C5, amended: with a poll interval of 10 s and a ceiling of 3, the first two
\* consecutive failures are followed by sleeps of 20 s and 40 s, and the third
\* stops the loop without a third sleep.
C5_TwoSleepsThenStop ==
    max_consecutive_errors = 3
        => /\ consecutive_errors = 0 => backoffs = <<>>
           /\ consecutive_errors = 1 => (backoffs = <<20>> /\ pc # "stopped")
           /\ consecutive_errors = 2 => (backoffs = <<20, 40>> /\ pc # "stopped")
           /\ consecutive_errors = 3 => (backoffs = <<20, 40>> /\ pc = "stopped")
           /\ consecutive_errors <= 3

\* three failures in a row from the start, under a ceiling of 3
C5_Witness ==
    /\ max_consecutive_errors = 3
    /\ consecutive_errors = 3
    /\ cycle_count = 3
    /\ now = 60

\* C6: a cycle that raises adds exactly one to consecutive_errors and, below
\* the ceiling, the loop then sleeps poll_interval_sec * 2^consecutive_errors,
\* with the incremented value, before the next cycle.
C6_FailureIncrementsAndBacksOff ==
    [][ /\ CycleFails
            => /\ consecutive_errors' = consecutive_errors + 1
               /\ consecutive_errors' < max_consecutive_errors
                    => /\ pc' = "sleeping"
                       /\ last_sleep' =
                            Some(PollIntervalSec * (2 ^ consecutive_errors'))
        /\ cycle_count' # cycle_count => pc = "loop"
        /\ (pc = "sleeping" /\ pc' # pc) => now' = now + Val(last_sleep) ]_vars

\* the second failure in a row has been followed by a sleep of 40 s
C6_Witness ==
    /\ consecutive_errors = 2
    /\ last_sleep = Some(40)
    /\ pc = "loop"
    /\ cycle_result = "raised"

\* C7: a cycle that returns leaves consecutive_errors at 0, whatever it was,
\* and the loop sleeps the poll interval.
C7_SuccessResetsErrors ==
    [][ CycleSucceeds
            => /\ consecutive_errors' = 0
               /\ pc' = "sleeping"
               /\ last_sleep' = Some(PollIntervalSec) ]_vars

\* a cycle has returned after two failed ones
C7_Witness ==
    /\ cycle_result = "ok"
    /\ cycle_count = 3
    /\ now = 60
    /\ consecutive_errors = 0
    /\ last_sleep = Some(PollIntervalSec)

\* the call just made is an add_trade that went through
AddTradeAccepted ==
    /\ call' # None
    /\ Val(call').op = "add_trade"
    /\ ~Val(call').raised

\* C11: the status stored with a fill is "filled" exactly when the quantity
\* actually filled is at least 99% of the quantity requested, and "partial"
\* otherwise, a fill of 0 included.
C11_FillStatusByThreshold ==
    [][AddTradeAccepted
       => LET c == Val(call')
              actual == IF c.filled_qty = None THEN c.qty ELSE c.filled_qty
              row == trades'[Len(trades')]
          IN  row.status =
                 IF RLe(RMul(c.qty, <<99, 100>>), actual)
                 THEN "filled" ELSE "partial"]_vars

TotalsNonNegative(p) ==
    /\ RLe(RZero, p.qty_yes) /\ RLe(RZero, p.cost_yes)
    /\ RLe(RZero, p.qty_no) /\ RLe(RZero, p.cost_no)

TotalsNotDecreased(old, new) ==
    /\ RLe(old.qty_yes, new.qty_yes) /\ RLe(old.cost_yes, new.cost_yes)
    /\ RLe(old.qty_no, new.qty_no) /\ RLe(old.cost_no, new.cost_no)

\* C13: the quantities and costs of every position are never negative, and no
\* ledger operation (create_position, add_trade, lock_profit, close_position)
\* removes a position or lowers one of its quantities or costs.
C13_TotalsOnlyGrow ==
    /\ [](\A i \in DOMAIN positions : TotalsNonNegative(positions[i]))
    /\ [][\A i \in DOMAIN positions :
            /\ i \in DOMAIN positions'
            /\ TotalsNotDecreased(positions[i], positions'[i])]_vars

\* two fills have accumulated on a side of a position since locked and closed
C13_Witness ==
    \E i \in DOMAIN positions :
        /\ positions[i].qty_yes = <<160, 1>>
        /\ positions[i].cost_yes = <<80, 1>>
        /\ positions[i].profit_locked
        /\ positions[i].status = "closed"

(***************************************************************************)
(* Properties of a position read back (checked under ReadSpec).            *)
(***************************************************************************)
ProfitComputed == call # None /\ Val(call).op = "guaranteed_profit"

\* C12: guaranteed_profit is min(qty_yes, qty_no) - (cost_yes + cost_no) when
\* both quantities are positive and 0 when either is zero; 100 and 100 shares
\* bought for 52 and 45 give 3.
C12_GuaranteedProfit ==
    ProfitComputed
    => LET p == Val(call).position
           v == Val(call).returned
           least == IF RLe(p.qty_yes, p.qty_no) THEN p.qty_yes ELSE p.qty_no
       IN  /\ (RLt(RZero, p.qty_yes) /\ RLt(RZero, p.qty_no))
                => v = RSub(least, RAdd(p.cost_yes, p.cost_no))
           /\ (p.qty_yes = RZero \/ p.qty_no = RZero) => v = RZero
           /\ (/\ p.qty_yes = <<100, 1>> /\ p.cost_yes = <<52, 1>>
               /\ p.qty_no = <<100, 1>> /\ p.cost_no = <<45, 1>>)
                => v = <<3, 1>>

\* the profit of 100 and 100 shares bought for 52 and 45 was computed
C12_Witness ==
    /\ ProfitComputed
    /\ Val(call).position.qty_yes = <<100, 1>>
    /\ Val(call).position.cost_yes = <<52, 1>>
    /\ Val(call).position.qty_no = <<100, 1>>
    /\ Val(call).position.cost_no = <<45, 1>>
    /\ Val(call).returned = <<3, 1>>

(***************************************************************************)
(* Properties of the market data source (checked under FetcherSpec).       *)
(***************************************************************************)
\* the call just made is a refresh_prices over a cache that held markets
RefreshOverCache ==
    /\ call' # None
    /\ Val(call').op = "refresh_prices"
    /\ cached_markets # <<>>

MarketIdsOf(markets) == {markets[i].market_id : i \in DOMAIN markets}

\* C19: when the upstream fails during refresh_prices and the cache holds
\* markets, the call returns the cached list as it is and raises nothing.
C19_StaleCacheOnFailure ==
    [][(RefreshOverCache /\ ~Val(call').upstream.ok)
       => /\ Val(call').returned = cached_markets
          /\ cached_markets' = cached_markets
          /\ ~Val(call').raised]_vars

\* a failed refresh returned the two markets of the cache
C19_Witness ==
    /\ call # None
    /\ Val(call).op = "refresh_prices"
    /\ ~Val(call).upstream.ok
    /\ Len(cached_markets) = 2
    /\ Val(call).returned = cached_markets

\* C20: a successful refresh over a cache that holds markets returns the
\* upstream's snapshots of exactly the cached ids that the upstream still
\* lists: a cached id missing upstream is left out without an error, and no
\* id outside the cache is returned.
C20_RefreshReturnsCachedIdsPresent ==
    [][(RefreshOverCache /\ Val(call').upstream.ok)
       => LET returned == Val(call').returned
              up == Val(call').upstream.markets
          IN  /\ MarketIdsOf(returned) =
                    MarketIdsOf(cached_markets) \cap MarketIdsOf(up)
              /\ \A i \in DOMAIN returned : \E j \in DOMAIN up : returned[i] = up[j]
              /\ Len(returned) <= Len(cached_markets)
              /\ ~Val(call').raised]_vars

\* of two cached markets one was gone upstream, which listed a market the
\* cache does not hold: one snapshot came back
C20_Witness ==
    /\ call # None
    /\ Val(call).op = "refresh_prices"
    /\ Val(call).upstream.ok
    /\ Len(cached_markets) = 2
    /\ Len(Val(call).upstream.markets) = 2
    /\ Len(Val(call).returned) = 1
    /\ MarketIdsOf(Val(call).upstream.markets) \ MarketIdsOf(cached_markets) # {}

\* C21: refresh_prices over an empty cache does nothing: no upstream fetch, no
\* change of state, an empty result that tells the caller to discover.
C21_RefreshOverEmptyCacheIsNoOp ==
    [][(/\ call' # None
        /\ Val(call').op = "refresh_prices"
        /\ cached_markets = <<>>)
       => /\ Val(call').returned = <<>>
          /\ cached_markets' = <<>>]_vars

\* C22: after fetch_market_list returns a list, the cache is exactly that
\* list, an empty one included: nothing of the previous cache survives.
C22_DiscoveryReplacesCache ==
    [][(call' # None /\ Val(call').op = "fetch_market_list")
       => cached_markets' = Val(call').returned]_vars


(***************************************************************************)
(* Two callers of add_trade on the same position, each on its own sqlite3  *)
(* connection (position_tracker.py 180-210).  The steps of one call are    *)
(* its SQL statements: the INSERT opens the transaction and takes SQLite's *)
(* write lock, the UPDATE adds to the totals inside it, commit publishes   *)
(* both and releases the lock.  A caller whose INSERT finds the lock held  *)
(* waits in SQLite's busy handler.                                         *)
(***************************************************************************)
Writers == {1, 2}
WriterSides == {"YES", "NO"}
WriterQty == RInt(100)
WriterFills == {None, RInt(60)}
WriterPrice == Cents(50)
WriterHashes == {"w1", "w2"}

\* the ledger both callers start from: position 1 with earlier fills
WriterLedger == LedgerWithFills(RInt(100), Cents(52), RInt(60), Cents(45))

Idle == [at |-> "idle", side |-> "YES", filled_qty |-> None, order_hash |-> "",
         pending |-> None]

WriterInit ==
    /\ CtlInit /\ ~dry_run /\ max_consecutive_errors = DefaultMaxConsecutiveErrors
    /\ FetchInit /\ GwInit /\ CallInit /\ SizeInit
    /\ dry_run_rows = 0
    /\ positions = WriterLedger.positions
    /\ trades = WriterLedger.trades
    /\ writers = [w \in Writers |-> Idle]
    /\ db_lock = 0

\* mutant: a connection writes without waiting for the write lock
WriteLockIgnored(lock) == TRUE

\* SQLite admits one write transaction at a time
WriteLockFree(lock) == lock = 0

\* the row add_trade inserts into trades
TradeRow(wr) ==
    LET actual_qty == ActualQty(WriterQty, wr.filled_qty)
    IN  [position_id |-> 1, side |-> wr.side, qty |-> actual_qty,
         price |-> WriterPrice, cost |-> TradeCost(actual_qty, WriterPrice),
         order_hash |-> wr.order_hash,
         status |-> FillStatus(WriterQty, wr.filled_qty)]

\* add_trade is entered: actual_qty and cost are computed, the connection opens
WConnect(w) ==
    /\ writers[w].at = "idle"
    /\ \E side \in WriterSides, filled_qty \in WriterFills,
          order_hash \in WriterHashes :
          writers' = [writers EXCEPT ![w] =
                         [at |-> "connected", side |-> side,
                          filled_qty |-> filled_qty, order_hash |-> order_hash,
                          pending |-> None]]
    /\ UNCHANGED <<ctl_vars, fetch_vars, gw_vars, db_vars, call, size_vars, db_lock>>

\* INSERT INTO trades: takes the write lock; a hash already stored raises
\* sqlite3.IntegrityError and the "with" block rolls back
WInsert(w) ==
    /\ writers[w].at = "connected"
    /\ WriteLockFree(db_lock)
    /\ IF HashTaken(trades, writers[w].order_hash)
       THEN /\ writers' = [writers EXCEPT ![w].at = "raised"]
            /\ UNCHANGED db_lock
       ELSE /\ writers' = [writers EXCEPT ![w].at = "inserted"]
            /\ db_lock' = w
    /\ UNCHANGED <<ctl_vars, fetch_vars, gw_vars, db_vars, call, size_vars>>

\* UPDATE positions SET qty_X = qty_X + ?, cost_X = cost_X + ?: evaluated by
\* SQLite on the rows this transaction sees
WUpdate(w) ==
    /\ writers[w].at = "inserted"
    /\ LET row == TradeRow(writers[w])
       IN  writers' = [writers EXCEPT
                          ![w].at = "updated",
                          ![w].pending =
                              Some(UpdateTotals(positions, 1, row.side, row.qty,
                                                row.cost))]
    /\ UNCHANGED <<ctl_vars, fetch_vars, gw_vars, db_vars, call, size_vars, db_lock>>

\* conn.commit(): the transaction becomes the database, the lock is released
WCommit(w) ==
    /\ writers[w].at = "updated"
    /\ positions' = Val(writers[w].pending)
    /\ trades' = Append(trades, TradeRow(writers[w]))
    /\ writers' = [writers EXCEPT ![w].at = "returned"]
    /\ db_lock' = 0
    /\ UNCHANGED <<ctl_vars, fetch_vars, gw_vars, dry_run_rows, call, size_vars>>

Connect == \E w \in Writers : WConnect(w)
Insert == \E w \in Writers : WInsert(w)
Update == \E w \in Writers : WUpdate(w)
Commit == \E w \in Writers : WCommit(w)

WriterNext == Connect \/ Insert \/ Update \/ Commit

WriterSpec == WriterInit /\ [][WriterNext]_vars

\* what the call of w added to the column of a side: its fill when it returned,
\* nothing when it raised
AddedQty(w, side) ==
    IF writers[w].at = "returned" /\ writers[w].side = side
    THEN TradeRow(writers[w]).qty ELSE RZero

AddedCost(w, side) ==
    IF writers[w].at = "returned" /\ writers[w].side = side
    THEN TradeRow(writers[w]).cost ELSE RZero

BothDone == \A w \in Writers : writers[w].at \in {"returned", "raised"}

\* C26: however the statements of two concurrent add_trade calls on one
\* position interleave, once both calls are over each total of the position
\* is its initial value plus the increment of every call that returned: no
\* increment is lost.
C26_NoLostUpdate ==
    BothDone =>
        LET p0 == WriterLedger.positions[1]
            p == positions[1]
        IN  /\ p.qty_yes = RAdd(p0.qty_yes, RAdd(AddedQty(1, "YES"), AddedQty(2, "YES")))
            /\ p.cost_yes = RAdd(p0.cost_yes, RAdd(AddedCost(1, "YES"), AddedCost(2, "YES")))
            /\ p.qty_no = RAdd(p0.qty_no, RAdd(AddedQty(1, "NO"), AddedQty(2, "NO")))
            /\ p.cost_no = RAdd(p0.cost_no, RAdd(AddedCost(1, "NO"), AddedCost(2, "NO")))

\* both calls returned after adding to the same column
C26_Witness ==
    /\ \A w \in Writers : writers[w].at = "returned"
    /\ writers[1].side = writers[2].side
    /\ writers[1].filled_qty # writers[2].filled_qty


(***************************************************************************)
(* The scanner under an external stop.  main() is run by asyncio.run       *)
(* (main.py 398-404); the loop holds no stop flag it would test between    *)
(* cycles (108-147).  A stop cancels the task running _main_loop: the      *)
(* cancellation is raised out of the await the task is suspended in, and   *)
(* neither "except Exception" of _execute_arbitrage nor the one of the     *)
(* loop catches it.                                                        *)
(***************************************************************************)
\* where the task can be suspended: the place_order awaits and asyncio.sleep
AwaitPoints == {"yes_pending", "no_pending", "sleeping"}

Cancel ==
    /\ pc \in AwaitPoints
    /\ pc' = "cancelled"
    /\ UNCHANGED <<consecutive_errors, max_consecutive_errors, dry_run, has_executor,
                   cycle_count, opportunity_count, trade_count,
                   last_market_discovery, now, queue, cur, last_sleep, backoffs,
                   cycle_result, fetch_vars, gw_vars, db_vars, call, size_vars>>
    /\ UNCHANGED txn_vars

StopNext == Next \/ Cancel

StopSpec == Init /\ [][StopNext]_vars

\* C27: a stop signal takes effect only between cycles: the loop is left
\* only from the sleep that follows a cycle which completed or failed, never
\* while a cycle is in progress.
C27_StopOnlyBetweenCycles ==
    [][pc' = "cancelled" => pc = "sleeping"]_vars


(***************************************************************************)
(* The balance check of a position (checked under ReadSpec).               *)
(***************************************************************************)
BalanceChecked == call # None /\ Val(call).op = "is_balanced"

\* C28: for every position and every tolerance, the balance check answers
\* true exactly when both quantities are positive and the smaller is at least
\* (1 - tolerance) times the larger; it answers false whenever a quantity is
\* zero.
C28_BalancedIffWithinTolerance ==
    BalanceChecked
    => LET c == Val(call)
           p == c.position
           t == IF c.tolerance = None THEN BalanceDefaultTolerance ELSE c.tolerance
           least == IF RLe(p.qty_yes, p.qty_no) THEN p.qty_yes ELSE p.qty_no
           most == IF RLe(p.qty_yes, p.qty_no) THEN p.qty_no ELSE p.qty_yes
       IN  /\ ~c.raised
           /\ c.returned <=> (/\ RLt(RZero, p.qty_yes)
                              /\ RLt(RZero, p.qty_no)
                              /\ RLe(RMul(RSub(RInt(1), t), most), least))
           /\ (p.qty_yes = RZero \/ p.qty_no = RZero) => ~c.returned


(***************************************************************************)
(* create_position on a ledger that already holds a position with fills    *)
(* (position_tracker.py 78-91, 134-154).                                   *)
(***************************************************************************)
MaxCreated == 3

\* create_position: INSERT INTO positions (market_id, market_title, status);
\* the id returned is cursor.lastrowid
CCreatePosition ==
    /\ Len(positions) < MaxCreated
    /\ \E m \in MarketIds :
          /\ positions' = CreatePosition(positions, m)
          /\ call' = Some([op |-> "create_position", market_id |-> m,
                           returned |-> Len(positions) + 1, raised |-> FALSE])
    /\ UNCHANGED <<ctl_vars, fetch_vars, gw_vars, trades, dry_run_rows, size_vars>>
    /\ UNCHANGED txn_vars

CreateNext == CCreatePosition

CreateSpec == ReadInit /\ [][CreateNext]_vars

\* C29: every create_position call adds one row whose id differs from every
\* earlier id and whose quantities and costs are zero, also when a row for
\* the same market id exists already; the rows that existed are unchanged.
C29_CreateAddsFreshZeroRow ==
    [][LET id == Val(call').returned
       IN  /\ Val(call').op = "create_position"
           /\ id \notin DOMAIN positions
           /\ DOMAIN positions' = DOMAIN positions \cup {id}
           /\ positions'[id].market_id = Val(call').market_id
           /\ positions'[id].qty_yes = RZero /\ positions'[id].cost_yes = RZero
           /\ positions'[id].qty_no = RZero /\ positions'[id].cost_no = RZero
           /\ \A i \in DOMAIN positions : positions'[i] = positions[i]]_vars

\* a second row was created for a market whose first row holds fills
C29_Witness ==
    /\ call # None
    /\ Val(call).op = "create_position"
    /\ Val(call).returned = 2
    /\ Len(positions) = 2
    /\ positions[2].market_id = positions[1].market_id
    /\ positions[1].qty_yes # RZero
    /\ positions[2].qty_yes = RZero


(***************************************************************************)
(* The cycle statistics (checked under Spec).                              *)
(***************************************************************************)
\* C30: cycle_count, opportunity_count and trade_count never decrease and
\* are never reset while the controller runs, and cycle_count grows by
\* exactly one with every scan cycle that starts, the failing ones included.
C30_CountersOnlyGrow ==
    [][/\ cycle_count' >= cycle_count
       /\ opportunity_count' >= opportunity_count
       /\ trade_count' >= trade_count
       /\ pc = "loop" => cycle_count' = cycle_count + 1
       /\ pc # "loop" => cycle_count' = cycle_count]_vars

\* two cycles in a row failed and both were counted, with the opportunity
\* seen in each
C30_Witness ==
    /\ cycle_result = "raised"
    /\ consecutive_errors = 2
    /\ cycle_count = 2
    /\ opportunity_count = 2


(***************************************************************************)
(* Discovery cadence (checked under Spec).                                 *)
(***************************************************************************)
\* the step is the start of a scan cycle
CycleStarts == pc = "loop"

\* C31: a scan cycle calls the discovery exactly when no discovery is
\* recorded yet or market_discovery_interval seconds have passed since the
\* recorded one; every other cycle calls the price refresh; nothing but the
\* discovery path changes last_market_discovery.
C31_DiscoveryCadence ==
    [][LET due == \/ last_market_discovery = None
                  \/ now - Val(last_market_discovery) >= MarketDiscoveryInterval
       IN  /\ CycleStarts
              => /\ Val(call').source = "fetch_market_list" <=> due
                 /\ Val(call').source = "refresh_prices" <=> ~due
           /\ last_market_discovery' # last_market_discovery
              => (CycleStarts /\ due /\ last_market_discovery' = Some(now))]_vars

\* a cycle rediscovered the markets because the interval had passed
C31_Witness ==
    /\ pc = "analyze"
    /\ call # None
    /\ Val(call).op = "_scan_cycle"
    /\ Val(call).source = "fetch_market_list"
    /\ now >= MarketDiscoveryInterval
    /\ last_market_discovery = Some(now)


(***************************************************************************)
(* The sizer's search (checked under SizerSpec).                           *)
(***************************************************************************)
\* the spend levels of the claim: the whole cents from max_spend down to one
\* cent; the highest that passes the balance test, 0 when none does
FirstBalancedLevel(a) ==
    SearchLevel(1, RTrunc(RMul(a.max_spend, RInt(100))),
                a.yes_price, a.no_price, a.tolerance_pct)

\* C32: the sizer returns the first spend level, going down from max_spend
\* one cent at a time, at which spending that level on each leg gives
\* quantities balanced within the tolerance, with qty = level / price; when
\* no level down to one cent passes it returns max_spend on each leg and
\* qty = max_spend / price.
C32_FirstBalancedLevelOrFallback ==
    SizerReturned
    => LET a == Val(size_args)
           k == FirstBalancedLevel(a)
           level == Rat(k, 100)
       IN  Val(size_result) =
               IF k > 0
               THEN SizeTuple(RDiv(level, a.yes_price), RDiv(level, a.no_price),
                              level, level)
               ELSE SizeTuple(RDiv(a.max_spend, a.yes_price),
                              RDiv(a.max_spend, a.no_price),
                              a.max_spend, a.max_spend)


(***************************************************************************)
(* The expiry filter (checked under Spec).                                 *)
(***************************************************************************)
\* the market ends less than two minutes after t
EndsWithinBuffer(m, t) == m.end_time # None /\ Val(m.end_time) < t + ExpiryBufferSec

\* the step is a call of _analyze_market, on the head of the queue
AnalyzeCalled ==
    /\ pc = "analyze"
    /\ queue # <<>>
    /\ call' # None
    /\ Val(call').op = "_analyze_market"

\* C33: a market that ends less than two minutes after the time at which the
\* cycle filtered its markets is not among the markets the cycle analyses:
\* it is not passed to _analyze_market, so it is neither counted as an
\* opportunity nor executed in that cycle.
C33_ExpiringMarketsNeverAnalysed ==
    /\ [](\A i \in DOMAIN queue : ~EndsWithinBuffer(queue[i], now))
    /\ [][AnalyzeCalled => /\ Val(call').market_id = Head(queue).market_id
                           /\ ~EndsWithinBuffer(Head(queue), now)]_vars

\* a cycle was handed a market about to end and analyses the others only
C33_Witness ==
    /\ pc = "analyze"
    /\ \E i \in DOMAIN cached_markets : EndsWithinBuffer(cached_markets[i], now)
    /\ queue # <<>>
    /\ Len(queue) < Len(cached_markets)


(***************************************************************************)
(* The life cycle of a position (checked under LedgerSpec).                *)
(***************************************************************************)
\* C34: a closed position is terminal: no later ledger operation changes its
\* quantities or costs or makes it open again, and get_all_open does not
\* return it.
C34_ClosedIsTerminal ==
    [][\A i \in DOMAIN positions :
          positions[i].status = "closed"
          => /\ positions'[i].qty_yes = positions[i].qty_yes
             /\ positions'[i].cost_yes = positions[i].cost_yes
             /\ positions'[i].qty_no = positions[i].qty_no
             /\ positions'[i].cost_no = positions[i].cost_no
             /\ positions'[i].status = "closed"
             /\ i \notin OpenIds(positions')]_vars


(***************************************************************************)
(* Conservation between the two ledger tables (checked under LedgerSpec).  *)
(***************************************************************************)
\* the sum of a column ("qty" or "cost") over the trade rows of one position
\* and side
RECURSIVE TradeSum(_, _, _, _)
TradeSum(ts, position_id, side, column) ==
    IF ts = <<>> THEN RZero
    ELSE LET row == Head(ts)
             rest == TradeSum(Tail(ts), position_id, side, column)
         IN  IF row.position_id = position_id /\ row.side = side
             THEN RAdd(IF column = "qty" THEN row.qty ELSE row.cost, rest)
             ELSE rest

\* C35: after any sequence of create_position and add_trade calls, accepted
\* or refused, the quantity and the cost of each side of every position are
\* the sums of qty and cost over the trade rows stored for that position and
\* side.
C35_TotalsAreTradeSums ==
    \A i \in DOMAIN positions :
        /\ positions[i].qty_yes = TradeSum(trades, i, "YES", "qty")
        /\ positions[i].cost_yes = TradeSum(trades, i, "YES", "cost")
        /\ positions[i].qty_no = TradeSum(trades, i, "NO", "qty")
        /\ positions[i].cost_no = TradeSum(trades, i, "NO", "cost")


(***************************************************************************)
(* Both legs or neither (checked under Spec).                              *)
(***************************************************************************)
\* a fill of the side is recorded for the position
LegRecorded(position_id, side) ==
    \E i \in DOMAIN trades :
        trades[i].position_id = position_id /\ trades[i].side = side

Executing == pc \in {"yes_pending", "no_pending"}

\* C37: trade_count never exceeds opportunity_count: a trade is counted only
\* for a market that was counted as an opportunity in the same call of
\* _analyze_market, and at most once for it.
C37_TradesWithinOpportunities ==
    /\ [](trade_count <= opportunity_count)
    /\ [](Executing => trade_count < opportunity_count)
    /\ [][/\ trade_count' \in {trade_count, trade_count + 1}
          /\ trade_count' # trade_count
             => (Executing \/ opportunity_count' = opportunity_count + 1)]_vars

\* two opportunities were counted and one of them became a trade
C37_Witness ==
    /\ pc = "analyze"
    /\ opportunity_count = 2
    /\ trade_count = 1


(***************************************************************************)
(* The error ceiling as a bound (checked under Spec).                      *)
(***************************************************************************)
\* every cycle so far has failed: the counter was never reset
EveryCycleFailed == cycle_count > 0 /\ consecutive_errors = cycle_count

\* C38: consecutive_errors stays between 0 and max_consecutive_errors, no
\* cycle starts once it has reached max_consecutive_errors, and when every
\* cycle fails the loop has stopped after exactly max_consecutive_errors
\* cycles.
C38_ErrorsBoundedByCeiling ==
    /\ [](0 <= consecutive_errors /\ consecutive_errors <= max_consecutive_errors)
    /\ [][cycle_count' # cycle_count
             => consecutive_errors < max_consecutive_errors]_vars
    /\ [](EveryCycleFailed
            => /\ cycle_count <= max_consecutive_errors
               /\ pc = "stopped" <=> cycle_count = max_consecutive_errors)

\* every cycle failed and the loop has stopped with the last of them
C38_Witness ==
    /\ EveryCycleFailed
    /\ pc = "stopped"
    /\ cycle_result = "raised"
    /\ cycle_count = max_consecutive_errors


(***************************************************************************)
(* The frame of refresh_prices (checked under FetcherSpec).                *)
(***************************************************************************)
\* C39: refresh_prices over a cache that holds markets leaves the cache as it
\* was, whether the upstream answered or failed; the cache changes only by a
\* discovery (fetch_market_list, or the refresh of an empty cache, which is
\* one), so an id missing from one refresh result is still looked up by the
\* next refresh.
C39_RefreshLeavesCache ==
    /\ [][RefreshOverCache => cached_markets' = cached_markets]_vars
    /\ [][cached_markets' # cached_markets
             => \/ Val(call').op = "fetch_market_list"
                \/ (Val(call').op = "refresh_prices" /\ cached_markets = <<>>)]_vars

\* the upstream answered a refresh with none of the two cached markets: the
\* result is empty and the cache still holds both
C39_Witness ==
    /\ call # None
    /\ Val(call).op = "refresh_prices"
    /\ Val(call).upstream.ok
    /\ Val(call).returned = <<>>
    /\ Len(cached_markets) = 2


(***************************************************************************)
(* Markets without an end time (checked under Spec).                       *)
(***************************************************************************)
HasNoEndTime(m) == m.end_time = None

\* C40: a snapshot that carries no end time is never dropped by the expiry
\* filter, whatever the time: every such snapshot that the discovery or the
\* refresh of a cycle returned is among the markets the cycle analyses, in
\* the order returned, and the cycle hands them to _analyze_market one after
\* the other.
C40_NoEndTimeNeverFiltered ==
    /\ [][(CycleStarts /\ pc' = "analyze")
          => SelectSeq(queue', HasNoEndTime)
               = SelectSeq(Val(call').returned, HasNoEndTime)]_vars
    /\ [][AnalyzeCalled => Val(call').market_id = Head(queue).market_id]_vars

\* late in the run a cycle was handed a market without an end time and one
\* about to end: it analyses the first only
C40_Witness ==
    /\ pc = "analyze"
    /\ now >= 60
    /\ call # None
    /\ Val(call).op = "_scan_cycle"
    /\ Len(Val(call).returned) = 2
    /\ Len(queue) = 1
    /\ HasNoEndTime(queue[1])

=============================================================================
